---- MODULE Spec2Model ----
(***************************************************************************)
(* Model of My_module::perp_core, the perpetual-futures position ledger of  *)
(* "smart contract/sources/simple_wallet.move" (lines 171-451).             *)
(*                                                                          *)
(* One Pair resource lives under the admin address; it owns the market      *)
(* scalars and the table user -> Position.  Every entry function is one     *)
(* atomic action: a Move abort rolls the whole transaction back, so a       *)
(* failing call changes nothing but the recorded outcome `last`.            *)
(*                                                                          *)
(* Move integers are unsigned and checked: an addition or multiplication    *)
(* above the type's maximum and a subtraction below zero abort the          *)
(* transaction (arithmetic error).  TLC's integers are 32 bits wide, so the *)
(* two widths are scaled down, keeping the relation the code relies on:     *)
(* the product of two u64 values always fits in a u128.                     *)
(***************************************************************************)
EXTENDS Integers, FiniteSets, Sequences, TLC

VARIABLES pairExists, pair_id, cfg, mark_px, cum_funding_bps, last_funding_ts,
          oracle, vrf_oracle, positions, last

vars == <<pairExists, pair_id, cfg, mark_px, cum_funding_bps, last_funding_ts,
          oracle, vrf_oracle, positions, last>>

pairVars == <<pairExists, pair_id, cfg, mark_px, cum_funding_bps, last_funding_ts,
              oracle, vrf_oracle, positions>>

(***************************************************************************)
(* Widths (scaled) and the input sets of the entry functions.               *)
(***************************************************************************)
U64Max == 32767
U128Max == 1073741823
BigPx == 21675
BigMargin == U64Max

ADMIN == "admin"
Users == {"alice"}
Accounts == {"alice", "bob"}
Callers == {"oracle", "vrf", "alice"}

\* The markets offered to create_pair: the documented example configuration
\* (50x, 20%, 10%, 0.50%/h) and a market with 200% margins and a 90%/h cap.
Markets ==
  { [pair_id |-> 1,
     cfg |-> [max_lev_bps |-> 5000, init_margin_bps |-> 2000,
              maint_margin_bps |-> 1000, max_funding_bps_hour |-> 50]],
    [pair_id |-> 2,
     cfg |-> [max_lev_bps |-> 5000, init_margin_bps |-> 20000,
              maint_margin_bps |-> 20000, max_funding_bps_hour |-> 9000]] }
NoCfg == [max_lev_bps |-> 0, init_margin_bps |-> 0, maint_margin_bps |-> 0,
          max_funding_bps_hour |-> 0]

Prices == {1, 3, BigPx}
Margins == {0, 6, BigMargin}
\* Arguments of open_position: the well-formed orders (size 3, long or short,
\* 50x, each margin), and one order per malformed argument.
OpenArgs ==
  { [size |-> 3, side |-> sd, lev_bps |-> 5000, margin |-> m, entry_px |-> 0] :
      sd \in {0, 1}, m \in Margins }
  \cup
  { [size |-> 3, side |-> 2, lev_bps |-> 5000, margin |-> 6, entry_px |-> 0],
    [size |-> 0, side |-> 0, lev_bps |-> 5000, margin |-> 6, entry_px |-> 0],
    [size |-> 3, side |-> 0, lev_bps |-> 0, margin |-> 6, entry_px |-> 0],
    [size |-> 3, side |-> 0, lev_bps |-> 6000, margin |-> 6, entry_px |-> 0],
    [size |-> 3, side |-> 0, lev_bps |-> 5000, margin |-> 6, entry_px |-> 2] }
CloseSizes == {0, 1, 3, 4}
Seeds == {0, 100, 18000}
Times == {0, 1800, 3600, 7200}

(***************************************************************************)
(* Checked unsigned arithmetic of the Move VM.  ABORT is the outcome of an *)
(* operation that aborts; it propagates through every later operation.      *)
(***************************************************************************)
ABORT == -1

add_u64(a, b) ==
  IF a = ABORT \/ b = ABORT THEN ABORT
  ELSE IF a > U64Max - b THEN ABORT ELSE a + b

mul_u64(a, b) ==
  IF a = ABORT \/ b = ABORT THEN ABORT
  ELSE IF a # 0 /\ b > U64Max \div a THEN ABORT ELSE a * b

as_u64(a) ==
  IF a = ABORT \/ a > U64Max THEN ABORT ELSE a

add_u128(a, b) ==
  IF a = ABORT \/ b = ABORT THEN ABORT
  ELSE IF a > U128Max - b THEN ABORT ELSE a + b

sub_u128(a, b) ==
  IF a = ABORT \/ b = ABORT THEN ABORT
  ELSE IF b > a THEN ABORT ELSE a - b

mul_u128(a, b) ==
  IF a = ABORT \/ b = ABORT THEN ABORT
  ELSE IF a # 0 /\ b > U128Max \div a THEN ABORT ELSE a * b

div_u128(a, b) ==
  IF a = ABORT \/ b = ABORT \/ b = 0 THEN ABORT ELSE a \div b

(***************************************************************************)
(* Outcomes: std::error categories, plus the VM's arithmetic abort.         *)
(***************************************************************************)
OK == "ok"
ALREADY_EXISTS == "already_exists"
NOT_FOUND == "not_found"
PERMISSION_DENIED == "permission_denied"
INVALID_ARGUMENT == "invalid_argument"
INVALID_STATE == "invalid_state"
ARITHMETIC_ERROR == "arithmetic_error"

\* Mutant of pair_object_address: every pair id has an address of its own,
\* the admin's only for the id of the stored pair.
pair_object_address_per_pair(admin, pid) ==
  IF pid = pair_id THEN admin ELSE ""

\* The storage key of a pair is the admin address alone.
pair_object_address(admin, pid) == admin

\* exists<Pair>(pa)
exists_Pair(pa) == pa = ADMIN /\ pairExists

\* The outcome of the latest call: the entry function, the account or caller
\* it was made for, its distinguishing argument (now_ts of push_funding,
\* size_to_close of close_position, new_px of set_mark_price, else 0), the
\* error category ("ok" on success), the abort code, and the equity a
\* successful close hands to the vault hook.
Outcome(op, who, arg, res, out) ==
  [op |-> op, who |-> who, arg |-> arg, result |-> res[1], reason |-> res[2],
   out |-> out]

Init ==
  /\ pairExists = FALSE
  /\ pair_id = 0
  /\ cfg = NoCfg
  /\ mark_px = 0
  /\ cum_funding_bps = 0
  /\ last_funding_ts = 0
  /\ oracle = ""
  /\ vrf_oracle = ""
  /\ positions = << >>
  /\ last = Outcome("init", "", 0, <<OK, "">>, 0)

(***************************************************************************)
(* Admin                                                                    *)
(***************************************************************************)
create_pair(pid, c, o, v, init_mark_px, now_ts) ==
  LET pa == pair_object_address(ADMIN, pid)
      res == IF exists_Pair(pa) THEN <<ALREADY_EXISTS, "E_PAIR_EXISTS">>
             ELSE <<OK, "">>
  IN /\ last' = Outcome("create_pair", ADMIN, pid, res, 0)
     /\ IF res[1] = OK
        THEN /\ pairExists' = TRUE
             /\ pair_id' = pid
             /\ cfg' = c
             /\ mark_px' = init_mark_px
             /\ cum_funding_bps' = 0
             /\ last_funding_ts' = now_ts
             /\ oracle' = o
             /\ vrf_oracle' = v
             /\ positions' = << >>
        ELSE UNCHANGED pairVars

(***************************************************************************)
(* Oracles                                                                  *)
(***************************************************************************)
\* Mutant of authorized: the caller is not compared with the registered address.
authorized_anyone(caller, registered) == TRUE

\* signer::address_of(caller) == book.oracle / p.vrf_oracle
authorized(caller, registered) == caller = registered

\* Mutant of set_mark_price: the new price is averaged with the stored one.
set_mark_price_averaging(pid, caller, new_px) ==
  LET pa == pair_object_address(ADMIN, pid)
      res == IF ~exists_Pair(pa) THEN <<NOT_FOUND, "E_PAIR_NOT_FOUND">>
             ELSE IF ~authorized(caller, oracle)
                  THEN <<PERMISSION_DENIED, "E_NOT_AUTH">>
             ELSE <<OK, "">>
  IN /\ last' = Outcome("set_mark_price", caller, new_px, res, 0)
     /\ mark_px' = IF res[1] = OK THEN (mark_px + new_px) \div 2 ELSE mark_px
     /\ UNCHANGED <<pairExists, pair_id, cfg, cum_funding_bps, last_funding_ts,
                    oracle, vrf_oracle, positions>>

\* Mutant of set_mark_price: the price is written before the caller is
\* checked, and the write survives the failure.
set_mark_price_write_before_check(pid, caller, new_px) ==
  LET pa == pair_object_address(ADMIN, pid)
      res == IF ~exists_Pair(pa) THEN <<NOT_FOUND, "E_PAIR_NOT_FOUND">>
             ELSE IF ~authorized(caller, oracle)
                  THEN <<PERMISSION_DENIED, "E_NOT_AUTH">>
             ELSE <<OK, "">>
  IN /\ last' = Outcome("set_mark_price", caller, new_px, res, 0)
     /\ mark_px' = IF exists_Pair(pa) THEN new_px ELSE mark_px
     /\ UNCHANGED <<pairExists, pair_id, cfg, cum_funding_bps, last_funding_ts,
                    oracle, vrf_oracle, positions>>

set_mark_price(pid, caller, new_px) ==
  LET pa == pair_object_address(ADMIN, pid)
      res == IF ~exists_Pair(pa) THEN <<NOT_FOUND, "E_PAIR_NOT_FOUND">>
             ELSE IF ~authorized(caller, oracle)
                  THEN <<PERMISSION_DENIED, "E_NOT_AUTH">>
             ELSE <<OK, "">>
  IN /\ last' = Outcome("set_mark_price", caller, new_px, res, 0)
     /\ mark_px' = IF res[1] = OK THEN new_px ELSE mark_px
     /\ UNCHANGED <<pairExists, pair_id, cfg, cum_funding_bps, last_funding_ts,
                    oracle, vrf_oracle, positions>>

\* Lines 284-287: the seed mapped to the hourly rate; aborts when r < cap.
funding_rate(cap, vrf_seed_u128) ==
  LET span == add_u64(mul_u64(cap, 2), 1)
      r == IF span = ABORT THEN ABORT ELSE as_u64(vrf_seed_u128 % span)
  IN sub_u128(r, cap)

\* Mutant of whole_hours: a started hour counts as a whole one.
whole_hours_rounded_up(dt) == (dt + 3599) \div 3600

\* Line 289: the elapsed whole hours.
whole_hours(dt) == dt \div 3600

\* Mutant of accrue: the clock advances by one hour however many accrued.
accrue_single_hour(cum, ts, signed, hours) ==
  [cum |-> add_u128(cum, mul_u128(signed, hours)),
   ts |-> add_u64(ts, 3600)]

\* Mutant of accrue: the hours are added to the clock as if they were seconds.
accrue_hours_as_seconds(cum, ts, signed, hours) ==
  [cum |-> add_u128(cum, mul_u128(signed, hours)),
   ts |-> add_u64(ts, hours)]

\* Lines 291-292: the accrual of `hours` whole hours at rate `signed`.
accrue(cum, ts, signed, hours) ==
  [cum |-> add_u128(cum, mul_u128(signed, hours)),
   ts |-> add_u64(ts, mul_u64(hours, 3600))]

\* Mutant of elapsed: the distance between the two timestamps, in either order.
elapsed_absolute(now_ts, ts) == IF now_ts > ts THEN now_ts - ts ELSE ts - now_ts

\* Line 281: the seconds since the last accrual, 0 when now_ts is not later.
elapsed(now_ts, ts) == IF now_ts > ts THEN now_ts - ts ELSE 0

\* The parameter funding_bps of the entry function is never read and is left
\* out of the action.
push_funding(pid, caller, vrf_seed_u128, now_ts) ==
  LET pa == pair_object_address(ADMIN, pid)
      dt == elapsed(now_ts, last_funding_ts)
      signed == funding_rate(cfg.max_funding_bps_hour, vrf_seed_u128)
      hours == whole_hours(dt)
      acc == accrue(cum_funding_bps, last_funding_ts, signed, hours)
      res == IF ~exists_Pair(pa) THEN <<NOT_FOUND, "E_PAIR_NOT_FOUND">>
             ELSE IF ~authorized(caller, vrf_oracle)
                  THEN <<PERMISSION_DENIED, "E_NOT_AUTH">>
             ELSE IF dt = 0 THEN <<OK, "">>
             ELSE IF signed = ABORT THEN <<ARITHMETIC_ERROR, "">>
             ELSE IF hours > 0 /\ (acc.cum = ABORT \/ acc.ts = ABORT)
                  THEN <<ARITHMETIC_ERROR, "">>
             ELSE <<OK, "">>
      accrues == res[1] = OK /\ dt # 0 /\ hours > 0
  IN /\ last' = Outcome("push_funding", caller, now_ts, res, 0)
     /\ cum_funding_bps' = IF accrues THEN acc.cum ELSE cum_funding_bps
     /\ last_funding_ts' = IF accrues THEN acc.ts ELSE last_funding_ts
     /\ UNCHANGED <<pairExists, pair_id, cfg, mark_px, oracle, vrf_oracle, positions>>

(***************************************************************************)
(* Core math                                                                *)
(***************************************************************************)
notional(px, size) == mul_u128(px, size)

\* Mutant of required_init_margin: the percentage floor is forgotten.
required_init_margin_by_lev_only(notional_q, lev_bps, init_bps) ==
  div_u128(notional_q, lev_bps)

required_init_margin(notional_q, lev_bps, init_bps) ==
  LET by_lev == div_u128(notional_q, lev_bps)
      by_floor == div_u128(mul_u128(notional_q, init_bps), 10000)
  IN IF by_lev = ABORT \/ by_floor = ABORT THEN ABORT
     ELSE IF by_lev > by_floor THEN by_lev ELSE by_floor

maint_margin(notional_q, maint_bps) ==
  div_u128(mul_u128(notional_q, maint_bps), 10000)

\* The magnitude of the funding movement; `side` is not read.
funding_pnl(px, size, side, cum_now, cum_open) ==
  LET n == notional(px, size)
      delta_bps_hours == IF cum_now > cum_open THEN cum_now - cum_open
                         ELSE cum_open - cum_now
  IN div_u128(mul_u128(n, delta_bps_hours), 10000)

\* Mutant of price_pnl: a movement against the position's side earns nothing.
price_pnl_by_side(cur_px, entry_px, size, side) ==
  LET diff == IF cur_px > entry_px THEN cur_px - entry_px ELSE entry_px - cur_px
  IN IF (side = 0) = (cur_px > entry_px) THEN mul_u128(diff, size) ELSE 0

\* The magnitude of the price movement; `side` is not read.
price_pnl(cur_px, entry_px, size, side) ==
  LET diff == IF cur_px > entry_px THEN cur_px - entry_px ELSE entry_px - cur_px
  IN mul_u128(diff, size)

\* The u128 value margin + price_pnl + funding_pnl - maint_margin at the
\* current mark price and funding index; ABORT when a step of it aborts.
health(pos) ==
  LET n == notional(mark_px, pos.size)
      mm == maint_margin(n, cfg.maint_margin_bps)
  IN sub_u128(
       add_u128(add_u128(pos.margin,
                         price_pnl(mark_px, pos.entry_px, pos.size, pos.side)),
                funding_pnl(mark_px, pos.size, pos.side, cum_funding_bps,
                            pos.funding_index_open)),
       mm)

\* Mutant of contains: the table reports every key as absent.
contains_nothing(t, k) == FALSE

\* Mutant of table_remove: the whole table is emptied.
table_remove_all(t, k) == << >>

\* table::contains, table::add, table::remove
contains(t, k) == k \in DOMAIN t
table_add(t, k, v) == [x \in DOMAIN t \cup {k} |-> IF x = k THEN v ELSE t[x]]
table_remove(t, k) == [x \in DOMAIN t \ {k} |-> t[x]]

(***************************************************************************)
(* Trading                                                                  *)
(***************************************************************************)
\* Mutant of new_Position: the caller's entry price is stored.
new_Position_at_given_price(side, size, lev_bps, margin, entry_px) ==
  [side |-> side, size |-> size, entry_px |-> entry_px, margin |-> margin,
   lev_bps |-> lev_bps, funding_index_open |-> cum_funding_bps]

\* Lines 354-360: the record that open_position stores; the argument
\* entry_px is not read.
new_Position(side, size, lev_bps, margin, entry_px) ==
  [side |-> side, size |-> size, entry_px |-> mark_px, margin |-> margin,
   lev_bps |-> lev_bps, funding_index_open |-> cum_funding_bps]

\* Mutant of lev_ok: only the upper bound is checked.
lev_ok_no_lower_bound(lev_bps) == lev_bps <= cfg.max_lev_bps

\* Line 348: lev_bps > 0 && lev_bps <= pair.cfg.max_lev_bps
lev_ok(lev_bps) == lev_bps > 0 /\ lev_bps <= cfg.max_lev_bps

\* The body of open_position run on the position table t of the pair: its
\* result, and the table it leaves.
open_position_on(t, user, pid, size, side, lev_bps, margin, entry_px) ==
  LET pa == pair_object_address(ADMIN, pid)
      n == notional(mark_px, size)
      req == required_init_margin(n, lev_bps, cfg.init_margin_bps)
      res == IF ~(side < 2) THEN <<INVALID_ARGUMENT, "E_BAD_SIDE">>
             ELSE IF ~(size > 0) THEN <<INVALID_ARGUMENT, "E_BAD_QTY">>
             ELSE IF ~exists_Pair(pa) THEN <<NOT_FOUND, "E_PAIR_NOT_FOUND">>
             ELSE IF ~lev_ok(lev_bps) THEN <<INVALID_ARGUMENT, "E_BAD_LEV">>
             ELSE IF contains(t, user) THEN <<ALREADY_EXISTS, "E_POS_EXISTS">>
             ELSE IF req = ABORT THEN <<ARITHMETIC_ERROR, "">>
             ELSE IF ~(margin >= req) THEN <<INVALID_ARGUMENT, "E_BAD_MARGIN">>
             ELSE <<OK, "">>
  IN [res |-> res, out |-> 0,
      table |-> IF res[1] = OK
                THEN table_add(t, user,
                       new_Position(side, size, lev_bps, margin, entry_px))
                ELSE t]

open_position(user, pid, size, side, lev_bps, margin, entry_px) ==
  LET r == open_position_on(positions, user, pid, size, side, lev_bps, margin,
                            entry_px)
  IN /\ last' = Outcome("open_position", user, 0, r.res, r.out)
     /\ positions' = r.table
     /\ UNCHANGED <<pairExists, pair_id, cfg, mark_px, cum_funding_bps,
                    last_funding_ts, oracle, vrf_oracle>>

\* Mutant of margin_share: the division is done before the multiplication.
margin_share_divide_first(pos, size_to_close) ==
  as_u64(mul_u128(div_u128(pos.margin, pos.size), size_to_close))

\* Mutant of margin_share: the share is rounded up.
margin_share_rounded_up(pos, size_to_close) ==
  as_u64(div_u128(add_u128(mul_u128(pos.margin, size_to_close), pos.size - 1),
                  pos.size))

\* Line 376: the pro-rata share of the margin, cast back to u64.
margin_share(pos, size_to_close) ==
  as_u64(div_u128(mul_u128(pos.margin, size_to_close), pos.size))

\* Mutant of equity_released: the funding PnL is taken from index 0 instead
\* of the snapshot stored at open.
equity_released_ignoring_snapshot(pos, size_to_close) ==
  add_u128(margin_share(pos, size_to_close),
           add_u128(price_pnl(mark_px, pos.entry_px, size_to_close, pos.side),
                    funding_pnl(mark_px, size_to_close, pos.side,
                                cum_funding_bps, 0)))

\* Lines 378-383: margin share + price PnL + funding PnL of the closed part.
equity_released(pos, size_to_close) ==
  LET pnl_price == price_pnl(mark_px, pos.entry_px, size_to_close, pos.side)
      pnl_funding == funding_pnl(mark_px, size_to_close, pos.side,
                                 cum_funding_bps, pos.funding_index_open)
      pnl_total == add_u128(pnl_price, pnl_funding)
  IN add_u128(margin_share(pos, size_to_close), pnl_total)

\* Mutant of close_size_ok: a close larger than the position is let through.
close_size_unchecked(pos, size_to_close) == TRUE

\* Line 374: pos.size >= size_to_close
close_size_ok(pos, size_to_close) == pos.size >= size_to_close

\* Mutant of shrink_or_delete: a record closed down to size 0 is kept.
shrink_keeping_empty(t, user, size_to_close, share) ==
  [t EXCEPT ![user] = [@ EXCEPT !.size = @ - size_to_close,
                                !.margin = @ - share]]

\* Mutant of shrink_or_delete: the part that stays is re-based on the current
\* mark price and funding index.
shrink_rebasing(t, user, size_to_close, share) ==
  LET pos == t[user]
      shrunk == [pos EXCEPT !.size = pos.size - size_to_close,
                            !.margin = pos.margin - share,
                            !.entry_px = mark_px,
                            !.funding_index_open = cum_funding_bps]
  IN IF shrunk.size = 0 THEN table_remove(t, user)
     ELSE [t EXCEPT ![user] = shrunk]

\* Mutant of shrink_or_delete: every successful close drops the record.
shrink_always_delete(t, user, size_to_close, share) == table_remove(t, user)

\* Lines 386-391: the record shrinks by the closed part and is removed from
\* the table when its size reaches 0.
shrink_or_delete(t, user, size_to_close, share) ==
  LET pos == t[user]
      shrunk == [pos EXCEPT !.size = pos.size - size_to_close,
                            !.margin = pos.margin - share]
  IN IF shrunk.size = 0 THEN table_remove(t, user)
     ELSE [t EXCEPT ![user] = shrunk]

\* The body of close_position run on the position table t of the pair: its
\* result, the equity it releases, and the table it leaves.
close_position_on(t, user, pid, size_to_close) ==
  LET pa == pair_object_address(ADMIN, pid)
      pos == t[user]
      share == margin_share(pos, size_to_close)
      eq == equity_released(pos, size_to_close)
      res == IF ~exists_Pair(pa) THEN <<NOT_FOUND, "E_PAIR_NOT_FOUND">>
             ELSE IF ~contains(t, user) THEN <<NOT_FOUND, "E_POS_NOT_FOUND">>
             ELSE IF ~(size_to_close > 0) THEN <<INVALID_ARGUMENT, "E_BAD_QTY">>
             ELSE IF ~close_size_ok(pos, size_to_close)
                  THEN <<INVALID_ARGUMENT, "E_BAD_QTY">>
             ELSE IF share = ABORT \/ eq = ABORT THEN <<ARITHMETIC_ERROR, "">>
             ELSE IF ~(eq >= 0) THEN <<INVALID_STATE, "E_UNSAFE">>
             ELSE IF sub_u128(pos.size, size_to_close) = ABORT
                     \/ sub_u128(pos.margin, share) = ABORT
                  THEN <<ARITHMETIC_ERROR, "">>
             ELSE <<OK, "">>
  IN [res |-> res, out |-> IF res[1] = OK THEN eq ELSE 0,
      table |-> IF res[1] # OK THEN t
                ELSE shrink_or_delete(t, user, size_to_close, share)]

close_position(user, pid, size_to_close) ==
  LET r == close_position_on(positions, user, pid, size_to_close)
  IN /\ last' = Outcome("close_position", user, size_to_close, r.res, r.out)
     /\ positions' = r.table
     /\ UNCHANGED <<pairExists, pair_id, cfg, mark_px, cum_funding_bps,
                    last_funding_ts, oracle, vrf_oracle>>

\* Mutant of liquidate: the market is marked back to the victim's entry price
\* while the position is examined.
liquidate_marking_to_entry(victim, pid) ==
  LET found == exists_Pair(pair_object_address(ADMIN, pid))
               /\ contains(positions, victim)
      res == IF found THEN <<INVALID_STATE, "E_UNSAFE">>
             ELSE <<NOT_FOUND, "E_POS_NOT_FOUND">>
  IN /\ last' = Outcome("liquidate", victim, 0, res, 0)
     /\ mark_px' = IF found THEN positions[victim].entry_px ELSE mark_px
     /\ UNCHANGED <<pairExists, pair_id, cfg, cum_funding_bps, last_funding_ts,
                    oracle, vrf_oracle, positions>>

\* The body of liquidate run on the position table t of the pair: its result,
\* and the table it leaves.
liquidate_on(t, victim, pid) ==
  LET pa == pair_object_address(ADMIN, pid)
      pos_ref == t[victim]
      h == health(pos_ref)
      equity == add_u128(add_u128(pos_ref.margin,
                           price_pnl(mark_px, pos_ref.entry_px, pos_ref.size,
                                     pos_ref.side)),
                  funding_pnl(mark_px, pos_ref.size, pos_ref.side,
                              cum_funding_bps, pos_ref.funding_index_open))
      res == IF ~exists_Pair(pa) THEN <<NOT_FOUND, "E_PAIR_NOT_FOUND">>
             ELSE IF ~contains(t, victim) THEN <<NOT_FOUND, "E_POS_NOT_FOUND">>
             ELSE IF h = ABORT THEN <<ARITHMETIC_ERROR, "">>
             ELSE IF ~(h < 0) THEN <<INVALID_STATE, "E_UNSAFE">>
             ELSE IF equity = ABORT THEN <<ARITHMETIC_ERROR, "">>
             ELSE <<OK, "">>
  IN [res |-> res, out |-> 0,
      table |-> IF res[1] = OK THEN table_remove(t, victim) ELSE t]

liquidate(victim, pid) ==
  LET r == liquidate_on(positions, victim, pid)
  IN /\ last' = Outcome("liquidate", victim, 0, r.res, r.out)
     /\ positions' = r.table
     /\ UNCHANGED <<pairExists, pair_id, cfg, mark_px, cum_funding_bps,
                    last_funding_ts, oracle, vrf_oracle>>

(***************************************************************************)
(* Views                                                                    *)
(***************************************************************************)
\* Mutant of get_position: a missing record is reported as not found.
get_position_or_abort(admin_addr, pid, owner) ==
  LET pa == pair_object_address(admin_addr, pid)
      res == IF ~exists_Pair(pa) THEN <<NOT_FOUND, "E_PAIR_NOT_FOUND">>
             ELSE IF ~contains(positions, owner)
                  THEN <<NOT_FOUND, "E_POS_NOT_FOUND">>
             ELSE <<OK, "">>
  IN /\ last' = Outcome("get_position", owner, 0, res,
                        IF res[1] = OK THEN <<positions[owner]>> ELSE << >>)
     /\ UNCHANGED pairVars

\* The returned Option<Position> is a sequence of at most one record.
get_position(admin_addr, pid, owner) ==
  LET pa == pair_object_address(admin_addr, pid)
      res == IF ~exists_Pair(pa) THEN <<NOT_FOUND, "E_PAIR_NOT_FOUND">>
             ELSE <<OK, "">>
      opt == IF res[1] = OK /\ contains(positions, owner)
             THEN <<positions[owner]>> ELSE << >>
  IN /\ last' = Outcome("get_position", owner, 0, res, opt)
     /\ UNCHANGED pairVars

\* Callers name the market by the pair id it was created with; the id is not
\* read by any entry function (pair_object_address).
Next ==
  \/ \E m \in Markets :
        create_pair(m.pair_id, m.cfg, "oracle", "vrf", 1, 0)
  \/ \E caller \in Callers, px \in Prices :
        set_mark_price(pair_id, caller, px)
  \/ \E caller \in Callers, seed \in Seeds, now \in Times :
        push_funding(pair_id, caller, seed, now)
  \/ \E user \in Users, a \in OpenArgs :
        open_position(user, pair_id, a.size, a.side, a.lev_bps, a.margin, a.entry_px)
  \/ \E user \in Users, k \in CloseSizes :
        close_position(user, pair_id, k)
  \/ \E victim \in Users :
        liquidate(victim, pair_id)

Spec == Init /\ [][Next]_vars

(***************************************************************************)
(* The admin's side: create_pair is offered every combination of a zero or  *)
(* positive leverage cap with initial and maintenance ratios in either      *)
(* order, under either pair id, and the later calls name either pair id;    *)
(* get_position is asked under the admin's address and under another one.   *)
(***************************************************************************)
PairIds == {1, 2}
AdminCfgs ==
  { [max_lev_bps |-> l, init_margin_bps |-> i, maint_margin_bps |-> m,
     max_funding_bps_hour |-> 50] :
      l \in {0, 5000}, i \in {1000, 2000}, m \in {1000, 2000} }

NextAdmin ==
  \/ \E pid \in PairIds, c \in AdminCfgs, px \in {1, 3}, now \in {0, 3600} :
        create_pair(pid, c, "oracle", "vrf", px, now)
  \/ \E pid \in PairIds, caller \in Callers, px \in Prices :
        set_mark_price(pid, caller, px)
  \/ \E pid \in PairIds, user \in Users, a \in OpenArgs :
        open_position(user, pid, a.size, a.side, a.lev_bps, a.margin, a.entry_px)
  \/ \E admin_addr \in {ADMIN, "alice"}, pid \in PairIds, owner \in Accounts :
        get_position(admin_addr, pid, owner)

SpecAdmin == Init /\ [][NextAdmin]_vars

(***************************************************************************)
(* Two accounts on one market: the 200% market, moved by its two oracles    *)
(* between the opening price and BigPx and over two funding hours, with     *)
(* full-margin orders of either side and closes of two or three units.      *)
(***************************************************************************)
AccountOrders ==
  { [size |-> 3, side |-> sd, lev_bps |-> 5000, margin |-> BigMargin,
     entry_px |-> 0] : sd \in {0, 1} }
AccountCloses == {2, 3}

NextAccounts ==
  \/ \E m \in {x \in Markets : x.pair_id = 2} :
        create_pair(m.pair_id, m.cfg, "oracle", "vrf", 1, 0)
  \/ \E px \in {1, BigPx} :
        set_mark_price(pair_id, "oracle", px)
  \/ \E now \in {3600, 7200} :
        push_funding(pair_id, "vrf", 18000, now)
  \/ \E user \in Accounts, a \in AccountOrders :
        open_position(user, pair_id, a.size, a.side, a.lev_bps, a.margin, a.entry_px)
  \/ \E user \in Accounts, k \in AccountCloses :
        close_position(user, pair_id, k)
  \/ \E victim \in Accounts :
        liquidate(victim, pair_id)

SpecAccounts == Init /\ [][NextAccounts]_vars

(***************************************************************************)
(* The funding clock: the two markets are created at timestamps that are    *)
(* not whole hours, the first at 600 and the second at 1800, and pushed at  *)
(* times before, within and beyond the first two hours of either.  The pair *)
(* id tells the creation timestamp.  Of the seeds offered, those that do    *)
(* not abort map to the rate +cap, so that the index counts the hours.      *)
(***************************************************************************)
CreatedAt(pid) == IF pid = 1 THEN 600 ELSE 1800
FundingTimes == {0, 1800, 4200, 5400, 7800, 9000}

NextFunding ==
  \/ \E m \in Markets :
        create_pair(m.pair_id, m.cfg, "oracle", "vrf", 1, CreatedAt(m.pair_id))
  \/ \E caller \in Callers, seed \in Seeds, now \in FundingTimes :
        push_funding(pair_id, caller, seed, now)

SpecFunding == Init /\ [][NextFunding]_vars

(***************************************************************************)
(* The quantities of the specification, over the unbounded integers.        *)
(***************************************************************************)
Abs(x) == IF x < 0 THEN -x ELSE x
Max(a, b) == IF a > b THEN a ELSE b

\* margin + pricePnL + fundingPnL - maintenanceMargin as a signed value, at
\* the current mark price and cumulative funding index.
SignedHealth(pos) ==
  pos.margin
  + Abs(mark_px - pos.entry_px) * pos.size
  + (mark_px * pos.size * Abs(cum_funding_bps - pos.funding_index_open)) \div 10000
  - (mark_px * pos.size * cfg.maint_margin_bps) \div 10000

\* max(floor(n / leverageBps), floor(n * initBps / 10000))
RequiredInitialMargin(n, leverageBps, initBps) ==
  Max(n \div leverageBps, (n * initBps) \div 10000)

marketVars == <<pairExists, pair_id, cfg, mark_px, cum_funding_bps,
                last_funding_ts, oracle, vrf_oracle>>

(***************************************************************************)
(* Liquidation                                                              *)
(***************************************************************************)
\* C1: for every existing position whose signed health is strictly negative,
\* liquidate(victim) succeeds and removes the victim's position record.
C1_LiquidateNegativeHealthSucceeds ==
  [][\A v \in Users :
       (/\ last'.op = "liquidate" /\ last'.who = v
        /\ pairExists /\ v \in DOMAIN positions
        /\ SignedHealth(positions[v]) < 0)
       => (last'.result = OK /\ v \notin DOMAIN positions')]_vars

\* C2: for every existing position whose signed health is >= 0, liquidate
\* fails with InvalidState and leaves the position record and the market
\* state unchanged.
C2_LiquidateHealthyIsInvalidState ==
  [][\A v \in Users :
       (/\ last'.op = "liquidate" /\ last'.who = v
        /\ pairExists /\ v \in DOMAIN positions
        /\ SignedHealth(positions[v]) >= 0)
       => (/\ last'.result = INVALID_STATE
           /\ positions' = positions
           /\ UNCHANGED marketVars)]_vars

(***************************************************************************)
(* Funding                                                                  *)
(***************************************************************************)
\* C3: a push_funding by the registered funding oracle with
\* hours = floor((now - lastFundingTs) / 3600) > 0 succeeds for every seed and
\* sets cumulativeFunding' = cumulativeFunding + rate * hours and
\* lastFundingTs' = lastFundingTs + hours * 3600, with the signed rate
\* (seed mod (2*cap + 1)) - cap.
C3_PushFundingAccruesSignedRate ==
  [][(last'.op = "push_funding" /\ last'.who = vrf_oracle /\ pairExists)
       => \A seed \in Seeds :
            LET now == last'.arg
                cap == cfg.max_funding_bps_hour
                rate == (seed % (2 * cap + 1)) - cap
                hours == (now - last_funding_ts) \div 3600
            IN (/\ now > last_funding_ts /\ hours > 0
                /\ push_funding(pair_id, vrf_oracle, seed, now))
               => (/\ last'.result = OK
                   /\ cum_funding_bps' = cum_funding_bps + rate * hours
                   /\ last_funding_ts' = last_funding_ts + hours * 3600)]_vars

\* C4: a push_funding call with now - lastFundingTs < 3600 (now <= lastFundingTs
\* included) never changes cumulativeFunding or lastFundingTs, whoever calls
\* and whatever the seed.
C4_SubHourPushChangesNothing ==
  [][(last'.op = "push_funding" /\ last'.arg - last_funding_ts < 3600)
       => (/\ cum_funding_bps' = cum_funding_bps
           /\ last_funding_ts' = last_funding_ts)]_vars

\* C4 witness: the funding oracle pushed with 0 < now - lastFundingTs < 3600
\* and the call returned.
C4_Witness ==
  /\ pairExists
  /\ last.op = "push_funding" /\ last.who = vrf_oracle /\ last.result = OK
  /\ last.arg > last_funding_ts /\ last.arg - last_funding_ts < 3600

(***************************************************************************)
(* Authorization                                                            *)
(***************************************************************************)
\* C5: a set_mark_price call by anyone but the registered price oracle, and a
\* push_funding call by anyone but the registered funding oracle, fails with
\* PermissionDenied and leaves mark price, cumulative funding, last funding
\* timestamp and all positions unchanged.
C5_UnregisteredCallerDenied ==
  [][/\ (last'.op = "set_mark_price" /\ pairExists /\ last'.who # oracle)
          => (last'.result = PERMISSION_DENIED /\ UNCHANGED pairVars)
     /\ (last'.op = "push_funding" /\ pairExists /\ last'.who # vrf_oracle)
          => (last'.result = PERMISSION_DENIED /\ UNCHANGED pairVars)]_vars

\* C5 witness: the funding oracle tried to set the price of a market that
\* holds a position, and was denied.
C5_Witness ==
  /\ pairExists /\ positions # << >>
  /\ last.op = "set_mark_price" /\ last.who = vrf_oracle /\ last.who # oracle
  /\ last.result = PERMISSION_DENIED

C7_FullCloseAlwaysSucceeds ==
  [][\A u \in Users :
       (/\ last'.op = "close_position" /\ last'.who = u
        /\ pairExists /\ u \in DOMAIN positions
        /\ last'.arg = positions[u].size)
       => (last'.result = OK /\ u \notin DOMAIN positions')]_vars

\* C8: close_position on an existing position with sizeToClose greater than
\* the position's size fails with InvalidArgument and leaves the position's
\* size and margin unchanged.
C8_OversizedCloseRejected ==
  [][\A u \in Users :
       (/\ last'.op = "close_position" /\ last'.who = u
        /\ pairExists /\ u \in DOMAIN positions
        /\ last'.arg > positions[u].size)
       => (last'.result = INVALID_ARGUMENT /\ positions' = positions)]_vars

\* C8 witness: a close larger than the position was rejected.
C8_Witness ==
  /\ last.op = "close_position" /\ last.result = INVALID_ARGUMENT
  /\ last.who \in DOMAIN positions
  /\ last.arg > positions[last.who].size

\* C9: a successful close of k units, 0 < k < size, leaves the record in
\* place with size' = size - k and margin' = margin - floor(margin * k / size);
\* the released share never exceeds the exact pro-rata amount.
C9_PartialCloseProRata ==
  [][\A u \in Users :
       (/\ last'.op = "close_position" /\ last'.who = u /\ last'.result = OK
        /\ u \in DOMAIN positions
        /\ 0 < last'.arg /\ last'.arg < positions[u].size)
       => (/\ u \in DOMAIN positions'
           /\ LET p == positions[u]
                  k == last'.arg
                  share == p.margin - positions'[u].margin
              IN /\ positions'[u].size = p.size - k
                 /\ share * p.size <= p.margin * k
                 /\ p.margin * k < (share + 1) * p.size)]_vars

\* C9 witness: one unit of a position of three was closed and the share of
\* the margin was truncated.
C9_Witness ==
  /\ last.op = "close_position" /\ last.result = OK /\ last.arg = 1
  /\ last.who \in DOMAIN positions
  /\ positions[last.who].size = 2
  /\ positions[last.who].margin = BigMargin - (BigMargin \div 3)
  /\ BigMargin % 3 # 0

\* C10: opening a position and closing it fully, with no set_mark_price and
\* no funding accrual in between, succeeds, releases exactly the margin
\* supplied at open and leaves no record: (a) for a close that directly
\* follows the open, (b) for every full close at the entry price and the
\* funding snapshot, which releases exactly the position's margin.
C10_RoundTripReleasesMargin ==
  [][\A u \in Users :
       /\ (/\ last.op = "open_position" /\ last.who = u /\ last.result = OK
           /\ last'.op = "close_position" /\ last'.who = u
           /\ last'.arg = positions[u].size)
          => (/\ last'.result = OK
              /\ last'.out = positions[u].margin
              /\ u \notin DOMAIN positions')
       /\ (/\ last'.op = "close_position" /\ last'.who = u
           /\ pairExists /\ u \in DOMAIN positions
           /\ last'.arg = positions[u].size
           /\ positions[u].entry_px = mark_px
           /\ positions[u].funding_index_open = cum_funding_bps)
          => (/\ last'.result = OK
              /\ last'.out = positions[u].margin
              /\ u \notin DOMAIN positions')]_vars

\* C10 witness: a position opened after funding had accrued was closed in
\* full at its entry price and snapshot, releasing its whole margin.
C10_Witness ==
  /\ last.op = "close_position" /\ last.result = OK /\ last.arg = 3
  /\ last.out = BigMargin /\ positions = << >>
  /\ cum_funding_bps >= 9000

(***************************************************************************)
(* Position store                                                           *)
(***************************************************************************)
\* C11: at most one position record exists per (market, account):
\* open_position never succeeds while the account already holds a position,
\* the existing record is left unchanged, and with otherwise valid arguments
\* (side, size and leverage accepted) the failure is AlreadyExists; an open
\* that succeeds finds no record of the account.
C11_OnePositionPerAccount ==
  [][last'.op = "open_position"
       => LET u == last'.who
          IN /\ last'.result = OK => u \notin DOMAIN positions
             /\ (pairExists /\ u \in DOMAIN positions)
                  => \A a \in OpenArgs :
                       open_position(u, pair_id, a.size, a.side, a.lev_bps,
                                     a.margin, a.entry_px)
                       => (/\ last'.result # OK
                           /\ positions' = positions
                           /\ (/\ a.side < 2 /\ a.size > 0
                               /\ a.lev_bps > 0 /\ a.lev_bps <= cfg.max_lev_bps)
                                => last'.result = ALREADY_EXISTS)]_vars

\* C11 witness: an order for an account that holds a position was rejected
\* with AlreadyExists.
C11_Witness ==
  /\ last.op = "open_position" /\ last.result = ALREADY_EXISTS
  /\ last.who \in DOMAIN positions

\* C12: in every reachable state every position record in the store has
\* size > 0; no sequence of calls leaves a record with size 0.
C12_StoredSizePositive ==
  \A u \in DOMAIN positions : positions[u].size > 0

\* C12 witness: a position of three was closed unit by unit down to its last
\* unit, and the record is still stored.
C12_Witness ==
  /\ last.op = "close_position" /\ last.result = OK /\ last.arg = 1
  /\ last.who \in DOMAIN positions
  /\ positions[last.who].size = 1

(***************************************************************************)
(* Markets                                                                  *)
(***************************************************************************)
\* C13: every market that exists satisfies maintenance margin ratio <=
\* initial margin ratio and max leverage > 0 in every reachable state;
\* create_pair admits no market that violates this.
C13_ConfigWellFormed ==
  pairExists => (/\ cfg.maint_margin_bps <= cfg.init_margin_bps
                 /\ cfg.max_lev_bps > 0)

\* C14: open_position, close_position and liquidate, whether they succeed or
\* fail, leave the market's configuration, mark price, cumulative funding
\* index, last funding timestamp and both oracle addresses unchanged; on an
\* existing market only set_mark_price changes the mark price and only
\* push_funding changes the funding index and timestamp.
C14_TradingLeavesMarketAlone ==
  [][/\ last'.op \in {"open_position", "close_position", "liquidate"}
          => UNCHANGED marketVars
     /\ (pairExists /\ mark_px' # mark_px) => last'.op = "set_mark_price"
     /\ (pairExists /\ (cum_funding_bps' # cum_funding_bps
                        \/ last_funding_ts' # last_funding_ts))
          => last'.op = "push_funding"]_vars

\* C14 witness: a liquidation was attempted on a market whose price and
\* funding index had both moved since its creation.
C14_Witness ==
  /\ last.op = "liquidate" /\ last.who \in DOMAIN positions
  /\ mark_px = 3 /\ cum_funding_bps > 0 /\ last_funding_ts > 0

(***************************************************************************)
(* Failures                                                                 *)
(***************************************************************************)
\* C15: every call of create_pair, set_mark_price, push_funding,
\* open_position, close_position or liquidate that fails, with any error,
\* leaves the complete market and position state exactly as it was before
\* the call.
C15_FailedCallChangesNothing ==
  [][(/\ last'.op \in {"create_pair", "set_mark_price", "push_funding",
                       "open_position", "close_position", "liquidate"}
      /\ last'.result # OK)
       => UNCHANGED pairVars]_vars

\* C15 witness: a funding push by the registered oracle aborted in its
\* arithmetic on a market that holds a position.
C15_Witness ==
  /\ last.op = "push_funding" /\ last.who = vrf_oracle
  /\ last.result = ARITHMETIC_ERROR
  /\ positions # << >>

(***************************************************************************)
(* Lifecycle                                                                *)
(***************************************************************************)
\* C16: across every step, a position record of an account appears only
\* through a successful open_position, changes (size and margin, nothing
\* else) only through a successful close_position, and disappears only
\* through a close_position that brings its size to 0 or a successful
\* liquidate; set_mark_price and push_funding never add, change or remove a
\* record.
C16_PositionLifecycle ==
  [][\A u \in Users :
       /\ (u \notin DOMAIN positions /\ u \in DOMAIN positions')
            => (last'.op = "open_position" /\ last'.who = u
                /\ last'.result = OK)
       /\ (/\ u \in DOMAIN positions /\ u \in DOMAIN positions'
           /\ positions'[u] # positions[u])
            => (/\ last'.op = "close_position" /\ last'.who = u
                /\ last'.result = OK
                /\ positions'[u] =
                     [positions[u] EXCEPT !.size = positions'[u].size,
                                          !.margin = positions'[u].margin])
       /\ (u \in DOMAIN positions /\ u \notin DOMAIN positions')
            => (/\ last'.who = u /\ last'.result = OK
                /\ \/ last'.op = "liquidate"
                   \/ (last'.op = "close_position"
                       /\ last'.arg = positions[u].size))
       /\ last'.op \in {"set_mark_price", "push_funding"}
            => positions' = positions]_vars

\* C16 witness: a record was removed by a close of its whole size after the
\* price had moved away from the entry price.
C16_Witness ==
  /\ last.op = "close_position" /\ last.result = OK /\ last.arg = 3
  /\ positions = << >> /\ mark_px = 3 /\ last.out > 6

(***************************************************************************)
(* Sides                                                                    *)
(***************************************************************************)
Results == {OK, ALREADY_EXISTS, NOT_FOUND, PERMISSION_DENIED, INVALID_ARGUMENT,
            INVALID_STATE, ARITHMETIC_ERROR}

\* The records p and q differ in their side and in nothing else.
Twins(p, q) == p.side # q.side /\ [p EXCEPT !.side = q.side] = q

\* What the call of close_position(u, k) ends with: its result, the equity
\* it releases, whether the record is still stored.
CloseResultIs(u, k, r) ==
  ENABLED (close_position(u, pair_id, k) /\ last'.result = r)
CloseReleases(u, k, o) ==
  ENABLED (close_position(u, pair_id, k) /\ last'.out = o)
CloseKeeps(u, k) ==
  ENABLED (close_position(u, pair_id, k) /\ u \in DOMAIN positions')

\* What the call of liquidate(u) ends with.
LiquidateResultIs(u, r) ==
  ENABLED (liquidate(u, pair_id) /\ last'.result = r)
LiquidateKeeps(u) ==
  ENABLED (liquidate(u, pair_id) /\ u \in DOMAIN positions')

C18_GetPositionNeverNotFound ==
  [][last'.op = "get_position"
       => (/\ last'.result # NOT_FOUND
           /\ last'.out = IF last'.who \in DOMAIN positions
                          THEN <<positions[last'.who]>> ELSE << >>
           /\ UNCHANGED pairVars)]_vars

\* C18 amended: get_position changes no state; it fails with NotFound when no
\* market is stored under the queried admin address and for nothing else,
\* the owner's missing record included: on a stored market it returns an
\* empty optional when the owner has no record and a copy of the record
\* otherwise, whatever pair id is named.
C18_GetPositionOnStoredMarket ==
  [][last'.op = "get_position"
       => /\ UNCHANGED pairVars
          /\ last'.result \in {OK, NOT_FOUND}
          /\ last'.result = NOT_FOUND => last'.reason = "E_PAIR_NOT_FOUND"
          /\ \A pid \in PairIds :
               get_position(ADMIN, pid, last'.who)
               => IF pairExists
                  THEN /\ last'.result = OK
                       /\ last'.out = IF last'.who \in DOMAIN positions
                                      THEN <<positions[last'.who]>> ELSE << >>
                  ELSE last'.result = NOT_FOUND]_vars

\* C18 witness: the query returned the record of an account that holds a
\* position.
C18_Witness ==
  /\ last.op = "get_position" /\ last.result = OK
  /\ last.who \in DOMAIN positions
  /\ last.out = <<positions[last.who]>>

\* C18 second witness: the query returned the empty optional for an account
\* without a record on a market that holds another account's position.
C18_WitnessNone ==
  /\ last.op = "get_position" /\ last.result = OK
  /\ positions # << >> /\ last.who \notin DOMAIN positions
  /\ last.out = << >>

\* C19: create_pair fails with AlreadyExists exactly when a market is already
\* stored under the admin's address, and then leaves that market unchanged;
\* a second create_pair by the same admin with a different pair id fails the
\* same way, so the admin never has more than the one market, under the pair
\* id it was created with.
C19_CreatePairOncePerAdmin ==
  [][last'.op = "create_pair"
       => /\ (last'.result = ALREADY_EXISTS) = pairExists
          /\ pairExists => (UNCHANGED pairVars /\ pair_id' = pair_id)
          /\ ~pairExists => (/\ last'.result = OK
                             /\ pairExists' /\ pair_id' = last'.arg
                             /\ positions' = << >>)]_vars

\* C19 witness: a create_pair under a pair id other than the stored market's
\* was rejected with AlreadyExists, on a market that holds a position.
C19_Witness ==
  /\ last.op = "create_pair" /\ last.result = ALREADY_EXISTS
  /\ pairExists /\ last.arg # pair_id
  /\ positions # << >>

(***************************************************************************)
(* Price oracle                                                             *)
(***************************************************************************)
\* C20: after the registered price oracle has set a mark price, setting the
\* same price again succeeds and leaves the market and position state as the
\* first call left it; the second call cannot end in any other way.
C20_SamePriceTwice ==
  (last.op = "set_mark_price" /\ last.result = OK)
  => /\ ENABLED (/\ set_mark_price(pair_id, oracle, last.arg)
                 /\ last'.result = OK
                 /\ UNCHANGED pairVars)
     /\ ~ ENABLED (/\ set_mark_price(pair_id, oracle, last.arg)
                   /\ ~ (last'.result = OK /\ UNCHANGED pairVars))

\* C20 witness: the oracle moved the price of a market that holds a position
\* and has accrued funding.
C20_Witness ==
  /\ last.op = "set_mark_price" /\ last.result = OK /\ last.who = oracle
  /\ last.arg = BigPx /\ mark_px = BigPx
  /\ positions # << >> /\ cum_funding_bps > 0

(***************************************************************************)
(* The stored record                                                        *)
(***************************************************************************)
\* C21: a successful open_position stores entry price = the market's current
\* mark price and funding snapshot = the market's current cumulative funding
\* index, together with the given side, size, margin and leverage; the
\* entry_px argument has no effect on the stored record.
C21_OpenStoresMarkAndSnapshot ==
  [][(last'.op = "open_position" /\ last'.result = OK)
       => LET u == last'.who
          IN /\ u \in DOMAIN positions'
             /\ positions'[u].entry_px = mark_px
             /\ positions'[u].funding_index_open = cum_funding_bps
             /\ \A a \in OpenArgs :
                  open_position(u, pair_id, a.size, a.side, a.lev_bps, a.margin,
                                a.entry_px)
                  => /\ positions'[u].side = a.side
                     /\ positions'[u].size = a.size
                     /\ positions'[u].margin = a.margin
                     /\ positions'[u].lev_bps = a.lev_bps
                     /\ \A e \in {0, 2, BigPx} :
                          open_position(u, pair_id, a.size, a.side, a.lev_bps,
                                        a.margin, e)]_vars

\* C21 witness: an order was accepted on a market whose price had moved to 3
\* and whose funding index had accrued; the record carries both, and 3 is
\* not an entry price any order names.
C21_Witness ==
  /\ last.op = "open_position" /\ last.result = OK
  /\ last.who \in DOMAIN positions
  /\ mark_px = 3 /\ positions[last.who].entry_px = 3
  /\ cum_funding_bps > 0
  /\ positions[last.who].funding_index_open = cum_funding_bps
  /\ \A a \in OpenArgs : a.entry_px # 3

(***************************************************************************)
(* Funding clock                                                            *)
(***************************************************************************)
\* C22: a push_funding call by the registered funding oracle with
\* 0 < now - lastFundingTs < 3600 completes successfully as a no-op for every
\* seed value: it returns no error and mutates nothing.
C22_SubHourPushSucceeds ==
  [][(/\ last'.op = "push_funding" /\ pairExists /\ last'.who = vrf_oracle
      /\ 0 < last'.arg - last_funding_ts
      /\ last'.arg - last_funding_ts < 3600)
       => (last'.result = OK /\ UNCHANGED pairVars)]_vars

\* C23: a push_funding call by the registered funding oracle with
\* now <= lastFundingTs is silently ignored: it returns successfully for every
\* seed and leaves cumulativeFunding and lastFundingTs (and everything else)
\* unchanged.
C23_StalePushIgnored ==
  [][(/\ last'.op = "push_funding" /\ pairExists /\ last'.who = vrf_oracle
      /\ last'.arg <= last_funding_ts)
       => (/\ last'.result = OK
           /\ UNCHANGED pairVars
           /\ \A seed \in Seeds :
                push_funding(pair_id, vrf_oracle, seed, last'.arg))]_vars

\* C23 witness: after funding had accrued, the funding oracle pushed with a
\* timestamp earlier than the last accrual and the call returned.
C23_Witness ==
  /\ last.op = "push_funding" /\ last.who = vrf_oracle /\ last.result = OK
  /\ last.arg < last_funding_ts
  /\ cum_funding_bps > 0

\* C24: sub-hour remainders are carried to later calls: after every
\* successful push_funding with now > lastFundingTs the new lastFundingTs
\* satisfies 0 <= now - lastFundingTs' < 3600, so the hours accrued since the
\* market was created, counted by the clock and by the index, are
\* floor((now - creation timestamp) / 3600).
C24_RemainderCarried ==
  [][(/\ last'.op = "push_funding" /\ last'.result = OK
      /\ pairExists /\ last'.who = vrf_oracle
      /\ last'.arg > last_funding_ts)
       => LET now == last'.arg
              created == CreatedAt(pair_id)
              total == (now - created) \div 3600
          IN /\ 0 <= now - last_funding_ts'
             /\ now - last_funding_ts' < 3600
             /\ last_funding_ts' = created + total * 3600
             /\ cum_funding_bps' = cfg.max_funding_bps_hour * total]_vars

\* C24 witness: the market created at 600 was pushed at 5400 and again at
\* 9000: each push spans 4800 s, and the second hour is accrued only because
\* the 1200 s left over by the first push are counted by the second.
C24_Witness ==
  /\ pair_id = 1 /\ CreatedAt(pair_id) = 600
  /\ last.op = "push_funding" /\ last.result = OK /\ last.arg = 9000
  /\ last_funding_ts = 7800
  /\ cum_funding_bps = 2 * cfg.max_funding_bps_hour

\* C30: the market's lastFundingTs never decreases in any execution, and in
\* every reachable state it differs from the timestamp given at create_pair
\* by a whole multiple of 3600 seconds (and is not earlier than it).
C30_FundingClockOnHourGrid ==
  [][/\ pairExists => last_funding_ts' >= last_funding_ts
     /\ pairExists'
          => (/\ last_funding_ts' >= CreatedAt(pair_id')
              /\ (last_funding_ts' - CreatedAt(pair_id')) % 3600 = 0)]_vars

\* C30 witness: the market created at 1800 stands two hours later, at 9000,
\* after a push.
C30_Witness ==
  /\ pairExists /\ pair_id = 2 /\ CreatedAt(pair_id) = 1800
  /\ last.op = "push_funding" /\ last.result = OK
  /\ last_funding_ts = 9000

(***************************************************************************)
(* Leverage                                                                 *)
(***************************************************************************)
\* C25: in every reachable state every stored position has
\* 0 < leverageBps <= the market's max leverage bps; open_position on a
\* market with leverageBps = 0 or above the market maximum fails with
\* InvalidArgument and creates no record.
C25_LeverageWithinMarketBounds ==
  [][/\ \A u \in DOMAIN positions' :
          /\ 0 < positions'[u].lev_bps
          /\ positions'[u].lev_bps <= cfg'.max_lev_bps
     /\ (last'.op = "open_position" /\ pairExists)
          => \A a \in OpenArgs :
               (/\ (a.lev_bps = 0 \/ a.lev_bps > cfg.max_lev_bps)
                /\ open_position(last'.who, pair_id, a.size, a.side, a.lev_bps,
                                 a.margin, a.entry_px))
               => (/\ last'.result = INVALID_ARGUMENT
                   /\ positions' = positions)]_vars

\* C25 witness: an order for an account without a position was rejected for
\* its leverage.
C25_Witness ==
  /\ pairExists /\ positions = << >>
  /\ last.op = "open_position" /\ last.result = INVALID_ARGUMENT
  /\ last.reason = "E_BAD_LEV"

(***************************************************************************)
(* The equity guard                                                         *)
(***************************************************************************)
\* C26: no close_position call ever fails with InvalidState: for every
\* existing position and every 0 < sizeToClose <= size, equityReleased =
\* marginShare + pricePnL + fundingPnL is >= marginShare >= 0 and the close
\* succeeds.
C26_CloseNeverInvalidState ==
  [][last'.op = "close_position"
       => /\ last'.result # INVALID_STATE
          /\ \A u \in Users :
               (/\ last'.who = u /\ pairExists /\ u \in DOMAIN positions
                /\ 0 < last'.arg /\ last'.arg <= positions[u].size)
               => (/\ last'.result = OK
                   /\ last'.out >= (positions[u].margin * last'.arg)
                                     \div positions[u].size
                   /\ (positions[u].margin * last'.arg)
                        \div positions[u].size >= 0)]_vars

(***************************************************************************)
(* Immutable fields                                                         *)
(***************************************************************************)
\* C28: while a position record exists its side, entry price, leverage and
\* funding-index snapshot never change: partial closes alter only size and
\* margin, and price or funding updates alter none of the record's fields.
C28_RecordFieldsImmutable ==
  [][\A u \in DOMAIN positions \cap DOMAIN positions' :
       /\ positions'[u].side = positions[u].side
       /\ positions'[u].entry_px = positions[u].entry_px
       /\ positions'[u].lev_bps = positions[u].lev_bps
       /\ positions'[u].funding_index_open = positions[u].funding_index_open
       /\ last'.op \in {"set_mark_price", "push_funding"}
            => positions'[u] = positions[u]]_vars

\* C28 witness: a position was closed in part after both the price and the
\* funding index had moved away from the values it was opened at.
C28_Witness ==
  /\ last.op = "close_position" /\ last.result = OK
  /\ last.who \in DOMAIN positions
  /\ positions[last.who].size = 2
  /\ positions[last.who].entry_px # mark_px
  /\ positions[last.who].funding_index_open # cum_funding_bps

(***************************************************************************)
(* Margin conservation                                                      *)
(***************************************************************************)
\* The margin share that a successful close has released: the equity handed
\* out less the price and funding PnL of the closed part.
ReleasedShare(p, k, equity) ==
  equity - Abs(mark_px - p.entry_px) * k
         - (mark_px * k * Abs(cum_funding_bps - p.funding_index_open)) \div 10000

\* C29: margin is conserved over a position's life through closes: a close
\* never underflows the remaining margin (what it releases is taken off the
\* record's margin, which stays >= 0), and the close that brings size to 0
\* releases exactly the whole remaining margin, so that the shares released
\* up to the deletion add up to the margin locked at open.
C29_MarginConserved ==
  [][\A u \in Users :
       (/\ last'.op = "close_position" /\ last'.who = u /\ last'.result = OK
        /\ u \in DOMAIN positions)
       => LET p == positions[u]
              share == ReleasedShare(p, last'.arg, last'.out)
          IN /\ 0 <= share /\ share <= p.margin
             /\ u \in DOMAIN positions'
                  => (/\ positions'[u].margin = p.margin - share
                      /\ positions'[u].margin >= 0)
             /\ u \notin DOMAIN positions'
                  => (last'.arg = p.size /\ share = p.margin)]_vars

\* C29 witness: a position of three units and a margin that three does not
\* divide was closed unit by unit; the last close released what the two
\* truncated shares had left.
C29_Witness ==
  /\ last.op = "close_position" /\ last.result = OK /\ last.arg = 1
  /\ positions = << >>
  /\ mark_px = 1 /\ BigMargin % 3 # 0
  /\ last.out = BigMargin - (BigMargin \div 3)
                  - ((BigMargin - (BigMargin \div 3)) \div 2)

(***************************************************************************)
(* Accounts                                                                 *)
(***************************************************************************)
\* The Option<Position> of an account: a sequence of at most one record.
RecordOf(u) == IF u \in DOMAIN positions THEN <<positions[u]>> ELSE << >>

\* The trading calls that account u can make.
TradingCalls(u) ==
  { [op |-> "open_position", who |-> u, order |-> a, k |-> 0] :
      a \in AccountOrders }
  \cup { [op |-> "close_position", who |-> u, order |-> << >>, k |-> k] :
           k \in AccountCloses }
  \cup { [op |-> "liquidate", who |-> u, order |-> << >>, k |-> 0] }

\* The call c run on the position table t, at the market as it stands.
Apply(c, t) ==
  IF c.op = "open_position"
  THEN open_position_on(t, c.who, pair_id, c.order.size, c.order.side,
                        c.order.lev_bps, c.order.margin, c.order.entry_px)
  ELSE IF c.op = "close_position"
  THEN close_position_on(t, c.who, pair_id, c.k)
  ELSE liquidate_on(t, c.who, pair_id)

\* The step taken is the call c.
IsCall(c) ==
  /\ last'.op = c.op /\ last'.who = c.who /\ last'.arg = c.k
  /\ \E r \in {Apply(c, positions)} :
       /\ last'.result = r.res[1]
       /\ last'.out = r.out
       /\ positions' = r.table

\* C27: trading calls on different accounts of the same market are
\* independent: a call ca of account a never changes the record of another
\* account b (nor the market), and every call cb of b, made after ca, ends as
\* it would have ended before ca and leaves the state that ca leaves when it
\* is made after cb: same results and same final state in either order.
\* (The market is unchanged by the step, so cb after ca is cb run on the
\* table that the step leaves.)
C27_AccountsIndependent ==
  [][last'.op \in {"open_position", "close_position", "liquidate"}
       => /\ UNCHANGED marketVars
          /\ \E ca \in TradingCalls(last'.who) : IsCall(ca)
          /\ \A b \in Accounts \ {last'.who} :
               /\ RecordOf(b)' = RecordOf(b)
               /\ \A ca \in {c \in TradingCalls(last'.who) : IsCall(c)} :
                    \A cb \in TradingCalls(b) :
                      \A before \in {Apply(cb, positions)} :
                        \A after \in {Apply(cb, positions')} :
                          \A swapped \in {Apply(ca, before.table)} :
                            /\ after.res = before.res
                            /\ after.out = before.out
                            /\ swapped.res[1] = last'.result
                            /\ swapped.out = last'.out
                            /\ after.table = swapped.table]_vars

\* C27 witness: with both accounts holding a position, one of them closed
\* its position in part and the other's record is the full one it opened.
C27_Witness ==
  /\ DOMAIN positions = Accounts
  /\ last.op = "close_position" /\ last.result = OK
  /\ positions[last.who].size = 1
  /\ \A b \in Accounts \ {last.who} :
       positions[b].size = 3 /\ positions[b].margin = BigMargin
====
